---- MODULE Spec2Model ----
(***************************************************************************)
(* The historical-observations route handler GET of the weather dashboard  *)
(* (src/unnamed/part_001): configuration check, the sequential five-day    *)
(* fetch loop, the reduction of the raw records to one reading per UTC     *)
(* calendar day, and the mapping of every outcome to an HTTP response.     *)
(*                                                                         *)
(* JavaScript values are modelled with their type tag, so that truthiness, *)
(* the global isNaN and "x || 0" behave as they do in the runtime.         *)
(* Timestamps are real epoch seconds; they are taken from the first days   *)
(* after the epoch so that milliseconds stay inside TLC's integers.  An    *)
(* ISO calendar date 'YYYY-MM-DD' is represented by the number of whole    *)
(* UTC days since the epoch, which is in bijection with it.                *)
(***************************************************************************)
EXTENDS Integers, Sequences, FiniteSets, TLC

VARIABLES
    deviceId,       \* process.env.TEMPEST_DEVICE_ID
    token,          \* process.env.TEMPEST_TOKEN
    tz,             \* the server's time zone: local time minus UTC, in seconds
    pc,             \* position of the handler
    dayOffset,      \* the loop variable
    inflight,       \* offsets whose request is issued and not yet settled
    issued,         \* offsets requested so far, in the order of the requests
    outcomes,       \* what each settled request delivered, in order
    observations,   \* const observations: RawObservation[]
    errors,         \* const errors: string[]
    dayGroups,      \* const dayGroups: Map<string, RawObservation[]>, in insertion order
    dailyRain,      \* const dailyRain: Map<string, number>
    sortedObs,      \* const sortedObs
    response        \* the NextResponse returned

vars == << deviceId, token, tz, pc, dayOffset, inflight, issued, outcomes,
           observations, errors, dayGroups, dailyRain, sortedObs, response >>

----------------------------------------------------------------------------
(* Bounds of the model *)

\* longest obs array one upstream response carries (specification Spec)
MaxBatch == 1
\* most records the five responses carry together (specification Spec)
MaxFetched == 2
\* longest aggregated record list the reduction is run on (specification SpecReduce)
MaxObs == 3

----------------------------------------------------------------------------
(* Program constants *)

NumOffsets == 5
MsPerSecond == 1000
NoonHour == 12
SecondsPerHour == 3600
MsPerDay == 86400000

----------------------------------------------------------------------------
(* JavaScript values *)

Num(n) == [t |-> "number", n |-> n]
NaN == [t |-> "NaN", n |-> 0]
Undefined == [t |-> "undefined", n |-> 0]
Null == [t |-> "null", n |-> 0]
Infinity == [t |-> "Infinity", n |-> 0]

\* ToBoolean: 0, NaN, undefined and null are falsy
Truthy(v) == (v.t = "number" /\ v.n # 0) \/ v.t = "Infinity"

\* the global isNaN(v) is Number.isNaN(Number(v)): Number(undefined) is NaN,
\* Number(null) is 0
IsNaN(v) == v.t \in {"NaN", "undefined"}

\* v || 0
OrZero(v) == IF Truthy(v) THEN v ELSE Num(0)

\* a > b on numbers
GreaterThan(a, b) ==
    IF a.t = "Infinity" THEN b.t # "Infinity"
    ELSE IF b.t = "Infinity" THEN FALSE
    ELSE a.n > b.n

Abs(x) == IF x < 0 THEN -x ELSE x

\* a raw record: the positions 0, 7, 8 and 11 of the upstream array
RawObservation(ts, temperature, humidity, rain) ==
    [i0 |-> ts, i7 |-> temperature, i8 |-> humidity, i11 |-> rain]

----------------------------------------------------------------------------
(* The reduction: lines 16-33 and 112-147 *)

\* obs[0] && !isNaN(obs[0])
UsableTimestamp(obs) == Truthy(obs.i0) /\ ~IsNaN(obs.i0)

\* new Date(obs[0] * 1000).toISOString() throws RangeError('Invalid time value')
\* when the time value is not finite
InvalidTimeValue(obs) == obs.i0.t # "number"

\* the key a record is filed under kept whole: the ISO string without .split('T')[0]
ISODateUnsplit(ts) == ts.n

\* new Date(ts * 1000).toISOString().split('T')[0]
ISODate(ts) == (ts.n * MsPerSecond) \div MsPerDay

\* dayGroups.has(date), dayGroups.set(date, []), dayGroups.get(date)?.push(obs)
PushToGroup(groups, date, obs) ==
    IF \E i \in 1..Len(groups) : groups[i].date = date
    THEN [i \in 1..Len(groups) |->
            IF groups[i].date = date
            THEN [date |-> date, obs |-> Append(groups[i].obs, obs)]
            ELSE groups[i]]
    ELSE Append(groups, [date |-> date, obs |-> <<obs>>])

\* observations.forEach of lines 115-123, from record i on; threw tells that
\* the callback threw at some record, groups is the map built until then
RECURSIVE GroupByDay(_, _, _)
GroupByDay(obsList, i, groups) ==
    IF i > Len(obsList) THEN [threw |-> FALSE, groups |-> groups]
    ELSE IF ~UsableTimestamp(obsList[i]) THEN GroupByDay(obsList, i + 1, groups)
    ELSE IF InvalidTimeValue(obsList[i]) THEN [threw |-> TRUE, groups |-> groups]
    ELSE GroupByDay(obsList, i + 1,
                    PushToGroup(groups, ISODate(obsList[i].i0), obsList[i]))

\* the rain table overwritten by every record: the comparison left out
AlwaysSetRain(table, date, dailyRainTotal) == TRUE

\* !dailyRain.has(date) || dailyRainTotal > dailyRain.get(date)
ShouldSetRain(table, date, dailyRainTotal) ==
    date \notin DOMAIN table \/ GreaterThan(dailyRainTotal, table[date])

\* dailyRain.set(date, value)
MapSet(table, date, value) ==
    [d \in DOMAIN table \cup {date} |-> IF d = date THEN value ELSE table[d]]

\* observations.forEach of lines 19-30, from record i on.  It runs only after
\* the grouping pass went through the same records without throwing, so every
\* usable timestamp it meets has a date
RECURSIVE RainPass(_, _, _)
RainPass(obsList, i, table) ==
    IF i > Len(obsList) THEN table
    ELSE IF ~UsableTimestamp(obsList[i]) THEN RainPass(obsList, i + 1, table)
    ELSE LET date == ISODate(obsList[i].i0)
             dailyRainTotal == OrZero(obsList[i].i11)
         IN  RainPass(obsList, i + 1,
                      IF ShouldSetRain(table, date, dailyRainTotal)
                      THEN MapSet(table, date, dailyRainTotal)
                      ELSE table)

calculateRainAccumulation(obsList) == RainPass(obsList, 1, <<>>)

\* new Date(ts * 1000).setHours(12, 0, 0, 0) / 1000: noon of the LOCAL calendar
\* day that ts falls on, in the time zone of the server
NoonTimestamp(ts, zone) ==
    ( ((ts.n * MsPerSecond + zone * MsPerSecond) \div MsPerDay) * MsPerDay
      + NoonHour * SecondsPerHour * MsPerSecond
      - zone * MsPerSecond ) \div MsPerSecond

\* dayObs.reduce((prev, curr) => |curr[0] - noon| < |prev[0] - noon| ? curr : prev)
RECURSIVE ReduceClosest(_, _, _, _)
ReduceClosest(dayObs, i, prev, noonTimestamp) ==
    IF i > Len(dayObs) THEN prev
    ELSE ReduceClosest(dayObs, i + 1,
            IF Abs(dayObs[i].i0.n - noonTimestamp) < Abs(prev.i0.n - noonTimestamp)
            THEN dayObs[i] ELSE prev,
            noonTimestamp)

Closest(dayObs, zone) ==
    ReduceClosest(dayObs, 2, dayObs[1], NoonTimestamp(dayObs[1].i0, zone))

\* closest && !isNaN(closest[7]) && !isNaN(closest[8])
Accepted(closest) == ~IsNaN(closest.i7) /\ ~IsNaN(closest.i8)

\* the object pushed at lines 138-143
WeatherObservation(closest, date, table) ==
    [timestamp |-> closest.i0.n * MsPerSecond,
     temperature |-> closest.i7,
     humidity |-> closest.i8,
     rain |-> OrZero(table[date])]

\* dayGroups.forEach of lines 129-145, from group i on
RECURSIVE PickDaily(_, _, _, _, _)
PickDaily(groups, i, table, zone, processedObs) ==
    IF i > Len(groups) THEN processedObs
    ELSE LET closest == Closest(groups[i].obs, zone)
         IN  PickDaily(groups, i + 1, table, zone,
                       IF Accepted(closest)
                       THEN Append(processedObs,
                                   WeatherObservation(closest, groups[i].date, table))
                       ELSE processedObs)

\* the list left in the order of the groups: the sort left out
Unsorted(processedObs) == processedObs

\* the place of e in an ascending list: behind every entry that is not later
RECURSIVE InsertByTimestamp(_, _)
InsertByTimestamp(sorted, e) ==
    IF sorted = <<>> THEN <<e>>
    ELSE IF e.timestamp - sorted[Len(sorted)].timestamp >= 0 THEN Append(sorted, e)
    ELSE Append(InsertByTimestamp(SubSeq(sorted, 1, Len(sorted) - 1), e),
                sorted[Len(sorted)])

RECURSIVE SortFrom(_, _, _)
SortFrom(processedObs, i, sorted) ==
    IF i > Len(processedObs) THEN sorted
    ELSE SortFrom(processedObs, i + 1, InsertByTimestamp(sorted, processedObs[i]))

\* processedObs.sort((a, b) => a.timestamp - b.timestamp), a stable sort
SortByTimestamp(processedObs) == SortFrom(processedObs, 1, <<>>)

----------------------------------------------------------------------------
(* The environment: configuration, time zone, upstream responses *)

\* an environment variable is unset, set to the empty string, or set
EnvValues == {"unset", "", "set"}

\* !deviceId && !token: the check passing when one of the two is present
BothMissing(d, t) == d \in {"unset", ""} /\ t \in {"unset", ""}

\* !deviceId || !token
ConfigMissing(d, t) == d \in {"unset", ""} \/ t \in {"unset", ""}

\* local time minus UTC of the server, in seconds: UTC-8, UTC, UTC+9
TZOffsets == {-8 * SecondsPerHour, 0, 9 * SecondsPerHour}

\* epoch seconds of hh:mm UTC on the given day after the epoch
At(day, hh, mm) == Num(day * (MsPerDay \div MsPerSecond) + hh * SecondsPerHour + mm * 60)

\* error.message of the errors axios.get rejects with
FetchErrorMessages ==
    {"Network Error", "Request failed with status code 500", "timeout of 10000ms exceeded"}

\* records of upstream responses in the fetch loop
FetchPool ==
    { RawObservation(At(1, 11, 55), Num(70), Num(55), Num(30)),
      RawObservation(At(2, 12, 0), Undefined, Num(60), Num(20)),
      RawObservation(Infinity, Num(68), Num(60), Num(0)) }

\* records the reduction is run on
Pool ==
    { RawObservation(At(1, 6, 0), Num(60), Num(50), Num(10)),
      RawObservation(At(1, 11, 55), Num(70), Num(55), Num(30)),
      RawObservation(At(1, 12, 5), Num(71), Num(54), Num(20)),
      RawObservation(At(1, 18, 0), Num(65), Num(58), Undefined),
      RawObservation(At(1, 12, 0), Null, Num(57), Num(0)),
      RawObservation(At(1, 12, 0), Undefined, Num(57), Num(40)),
      RawObservation(At(1, 12, 0), Num(72), NaN, Null),
      RawObservation(At(1, 12, 0), Num(72), Infinity, Num(5)),
      RawObservation(At(2, 3, 0), Num(66), Num(61), Num(0)),
      RawObservation(At(2, 12, 0), Num(68), Num(60), Num(20)),
      RawObservation(NaN, Num(50), Num(50), Num(90)),
      RawObservation(Undefined, Num(50), Num(50), Num(90)),
      RawObservation(Num(0), Num(50), Num(50), Num(90)),
      RawObservation(Infinity, Num(50), Num(50), Num(90)) }

\* the sequences over S of length at most n
SeqUpTo(S, n) == UNION { [1..k -> S] : k \in 0..n }

----------------------------------------------------------------------------
(* The handler GET *)

\* errors.join(sep), from element i on
RECURSIVE JoinFrom(_, _, _)
JoinFrom(list, i, sep) ==
    IF i > Len(list) THEN ""
    ELSE IF i = Len(list) THEN list[i]
    ELSE list[i] \o sep \o JoinFrom(list, i + 1, sep)

Join(list, sep) == JoinFrom(list, 1, sep)

NoSummary == [start_time |-> 0, end_time |-> 0, total_observations |-> 0]

\* NextResponse.json({error, details}, {status}); an error body has no obs
\* and no summary
ErrorResponse(status, error, details) ==
    [status |-> status, error |-> error, details |-> details,
     obs |-> <<>>, summary |-> NoSummary]

\* the summary taking end_time from the first entry: sortedObs[0] written
\* where sortedObs[sortedObs.length - 1] is meant
SuccessResponseEndFromFirst(obs) ==
    [status |-> 200, error |-> "", details |-> "", obs |-> obs,
     summary |-> [start_time |-> obs[1].timestamp,
                  end_time |-> obs[1].timestamp,
                  total_observations |-> Len(obs)]]

\* NextResponse.json({obs, summary}): status 200, no error key
SuccessResponse(obs) ==
    [status |-> 200, error |-> "", details |-> "", obs |-> obs,
     summary |-> [start_time |-> obs[1].timestamp,
                  end_time |-> obs[Len(obs)].timestamp,
                  total_observations |-> Len(obs)]]

\* no response has been returned yet
NoResponse == [status |-> 0, error |-> "", details |-> "", obs |-> <<>>,
               summary |-> NoSummary]

Init ==
    /\ deviceId \in EnvValues
    /\ token \in EnvValues
    /\ tz \in TZOffsets
    /\ pc = "config"
    /\ dayOffset = 0
    /\ inflight = {}
    /\ issued = <<>>
    /\ outcomes = <<>>
    /\ observations = <<>>
    /\ errors = <<>>
    /\ dayGroups = <<>>
    /\ dailyRain = <<>>
    /\ sortedObs = <<>>
    /\ response = NoResponse

\* lines 36-56
CheckConfig ==
    /\ pc = "config"
    /\ IF ConfigMissing(deviceId, token)
       THEN /\ response' = ErrorResponse(500, "Missing configuration",
                  "Required environment variables TEMPEST_DEVICE_ID and TEMPEST_TOKEN are not set")
            /\ pc' = "done"
       ELSE /\ pc' = "loop"
            /\ UNCHANGED response
    /\ UNCHANGED << deviceId, token, tz, dayOffset, inflight, issued, outcomes,
                    observations, errors, dayGroups, dailyRain, sortedObs >>

\* lines 59-79: the loop condition holds and axios.get is called and awaited
IssueRequest ==
    /\ pc = "loop"
    /\ dayOffset < NumOffsets
    /\ inflight' = inflight \cup {dayOffset}
    /\ issued' = Append(issued, dayOffset)
    /\ pc' = "await"
    /\ UNCHANGED << deviceId, token, tz, dayOffset, outcomes, observations, errors,
                    dayGroups, dailyRain, sortedObs, response >>

\* lines 81-83: the request resolves and response.data.obs is an array
ResponseWithObs ==
    /\ pc = "await"
    /\ \E batch \in SeqUpTo(FetchPool, MaxBatch) :
          /\ Len(observations) + Len(batch) <= MaxFetched
          /\ observations' = observations \o batch
          /\ outcomes' = Append(outcomes,
                [offset |-> dayOffset, kind |-> "obs", obs |-> batch])
    /\ inflight' = inflight \ {dayOffset}
    /\ dayOffset' = dayOffset + 1
    /\ pc' = "loop"
    /\ UNCHANGED << deviceId, token, tz, issued, errors, dayGroups, dailyRain,
                    sortedObs, response >>

\* lines 84-87: the request resolves and response.data.obs is no array
ResponseWithoutObs ==
    /\ pc = "await"
    /\ errors' = Append(errors,
            "No observations found for day offset " \o ToString(dayOffset))
    /\ outcomes' = Append(outcomes,
            [offset |-> dayOffset, kind |-> "none", obs |-> <<>>])
    /\ inflight' = inflight \ {dayOffset}
    /\ dayOffset' = dayOffset + 1
    /\ pc' = "loop"
    /\ UNCHANGED << deviceId, token, tz, issued, observations, dayGroups, dailyRain,
                    sortedObs, response >>

\* the inner catch passing the error on to the handler of lines 168-184
RethrowFetchError(message) ==
    /\ pc = "await"
    /\ outcomes' = Append(outcomes,
            [offset |-> dayOffset, kind |-> "failed", obs |-> <<>>])
    /\ inflight' = inflight \ {dayOffset}
    /\ response' = ErrorResponse(500, "Failed to fetch historical data", message)
    /\ pc' = "done"
    /\ UNCHANGED << deviceId, token, tz, dayOffset, issued, observations, errors,
                    dayGroups, dailyRain, sortedObs >>

\* lines 88-97: the request rejects (network error, non-2xx status, timeout)
CatchFetchError(message) ==
    /\ pc = "await"
    /\ errors' = Append(errors,
            "Failed to fetch day " \o ToString(dayOffset) \o ": " \o message)
    /\ outcomes' = Append(outcomes,
            [offset |-> dayOffset, kind |-> "failed", obs |-> <<>>])
    /\ inflight' = inflight \ {dayOffset}
    /\ dayOffset' = dayOffset + 1
    /\ pc' = "loop"
    /\ UNCHANGED << deviceId, token, tz, issued, observations, dayGroups, dailyRain,
                    sortedObs, response >>

RequestFails == \E message \in FetchErrorMessages : CatchFetchError(message)

\* lines 100-193: the loop is left; everything from here on is synchronous
Finish ==
    /\ pc = "loop"
    /\ dayOffset >= NumOffsets
    /\ pc' = "done"
    /\ IF Len(observations) = 0
       THEN /\ response' = ErrorResponse(404, "No weather data available",
                                         Join(errors, ". "))
            /\ UNCHANGED << dayGroups, dailyRain, sortedObs >>
       ELSE LET grouped == GroupByDay(observations, 1, <<>>)
            IN  /\ dayGroups' = grouped.groups
                /\ IF grouped.threw
                   THEN \* a RangeError, no AxiosError: lines 186-192
                        /\ response' = ErrorResponse(500, "An unexpected error occurred",
                                                     "Invalid time value")
                        /\ UNCHANGED << dailyRain, sortedObs >>
                   ELSE LET table == calculateRainAccumulation(observations)
                            sorted == SortByTimestamp(
                                        PickDaily(grouped.groups, 1, table, tz, <<>>))
                        IN  /\ dailyRain' = table
                            /\ sortedObs' = sorted
                            /\ response' =
                                 IF Len(sorted) = 0
                                 THEN ErrorResponse(404, "No valid weather data available",
                                        "Could not process any observations from the available data")
                                 ELSE SuccessResponse(sorted)
    /\ UNCHANGED << deviceId, token, tz, dayOffset, inflight, issued, outcomes,
                    observations, errors >>

Next ==
    \/ CheckConfig
    \/ IssueRequest
    \/ ResponseWithObs
    \/ ResponseWithoutObs
    \/ RequestFails
    \/ Finish

Spec == Init /\ [][Next]_vars

----------------------------------------------------------------------------
(* The reduction on its own: the handler at the end of a fetch loop in which *)
(* offset 0 delivered the records and the other offsets an empty array       *)

AfterLoop(obsList) ==
    [i \in 1..NumOffsets |->
        [offset |-> i - 1, kind |-> "obs", obs |-> IF i = 1 THEN obsList ELSE <<>>]]

InitReduce ==
    /\ deviceId = "set"
    /\ token = "set"
    /\ tz \in TZOffsets
    /\ pc = "loop"
    /\ dayOffset = NumOffsets
    /\ inflight = {}
    /\ issued = [i \in 1..NumOffsets |-> i - 1]
    /\ observations \in SeqUpTo(Pool, MaxObs)
    /\ outcomes = AfterLoop(observations)
    /\ errors = <<>>
    /\ dayGroups = <<>>
    /\ dailyRain = <<>>
    /\ sortedObs = <<>>
    /\ response = NoResponse

NextReduce == Finish

SpecReduce == InitReduce /\ [][NextReduce]_vars

----------------------------------------------------------------------------
(* Properties *)

\* both environment variables are set to a non-empty value
ConfigPresent == deviceId = "set" /\ token = "set"

\* the UTC calendar day of a time in epoch milliseconds
UTCDayOfMs(ms) == ms \div MsPerDay

\* the records of the input that have a finite numeric timestamp on UTC day d
RecordsOfDay(d) ==
    { k \in 1..Len(observations) :
        /\ observations[k].i0.t = "number"
        /\ UTCDayOfMs(observations[k].i0.n * MsPerSecond) = d }

\* the records delivered by the requests that resolved with an obs array,
\* in the order of the requests
RECURSIVE Delivered(_, _)
Delivered(outs, i) ==
    IF i > Len(outs) THEN <<>>
    ELSE (IF outs[i].kind = "obs" THEN outs[i].obs ELSE <<>>) \o Delivered(outs, i + 1)

\* C1: with configuration present, the response is 404 'No weather data
\* available' exactly when no raw record was aggregated, 404 'No valid weather
\* data available' exactly when records were aggregated but the reduction
\* emitted no daily entry, and the success body {obs, summary} exactly when the
\* reduction emitted at least one daily entry.
C1_ResponseClassifiedByRecords ==
    (pc = "done" /\ ConfigPresent) =>
        /\ (response.status = 404 /\ response.error = "No weather data available")
             <=> Len(observations) = 0
        /\ (response.status = 404 /\ response.error = "No valid weather data available")
             <=> (Len(observations) > 0 /\ Len(sortedObs) = 0)
        /\ (response.status = 200 /\ response.error = "" /\ response.obs = sortedObs)
             <=> Len(sortedObs) > 0

\* C2: the requests are issued in the order 0,1,2,3,4, each only after the
\* previous one has settled; a rejected request leaves a reason and the loop
\* goes on, so that all five offsets are attempted, the aggregate holds exactly
\* the records of the resolved requests, and the response is never 'Failed to
\* fetch historical data'.
C2_SequentialFetch ==
    /\ issued = [i \in 1..Len(issued) |-> i - 1]
    /\ Cardinality(inflight) <= 1
    /\ Len(issued) <= Len(outcomes) + 1
    /\ inflight = { issued[i] : i \in (Len(outcomes) + 1)..Len(issued) }
    /\ \A i \in 1..Len(outcomes) : outcomes[i].offset = issued[i]
    /\ observations = Delivered(outcomes, 1)
    /\ Len(errors) = Cardinality({ i \in 1..Len(outcomes) : outcomes[i].kind # "obs" })
    /\ response.error # "Failed to fetch historical data"
    /\ (pc = "done" /\ ConfigPresent) =>
          /\ Len(issued) = NumOffsets
          /\ Len(outcomes) = NumOffsets
          /\ inflight = {}

\* C2 witness: a run in which requests failed, a later request delivered a
\* record, and the handler answered with success
C2_Witness ==
    /\ pc = "done"
    /\ outcomes # <<>>
    /\ outcomes[1].kind = "failed"
    /\ \E i \in 2..Len(outcomes) : outcomes[i].kind = "obs" /\ outcomes[i].obs # <<>>
    /\ response.status = 200

\* C3: when the device identifier or the token is unset or empty the answer is
\* 500 'Missing configuration' and no request is ever issued; a request is
\* issued only when both are present.
C3_NoRequestWithoutConfig ==
    /\ ~ConfigPresent => (issued = <<>> /\ inflight = {} /\ outcomes = <<>>)
    /\ (~ConfigPresent /\ pc = "done") =>
          (response.status = 500 /\ response.error = "Missing configuration")
    /\ (issued # <<>> \/ inflight # {}) => ConfigPresent
    /\ ConfigPresent => response.error # "Missing configuration"

\* C3 witness: the device identifier is set, the token is empty, and the
\* handler has answered
C3_Witness ==
    /\ pc = "done"
    /\ deviceId = "set"
    /\ token = ""
    /\ response.status = 500
    /\ issued = <<>>

\* C4: the emitted list has at most one entry per UTC calendar date, each
\* entry's date is the date of at least one input record with a finite
\* timestamp, and no two entries' timestamps fall on the same UTC date.
C4_OneEntryPerDate ==
    /\ \A i, j \in 1..Len(response.obs) :
          i # j => UTCDayOfMs(response.obs[i].timestamp)
                     # UTCDayOfMs(response.obs[j].timestamp)
    /\ \A i \in 1..Len(response.obs) :
          RecordsOfDay(UTCDayOfMs(response.obs[i].timestamp)) # {}

\* C4 witness: three records, two of one date and one of another, answered
\* with two entries
C4_Witness ==
    /\ pc = "done"
    /\ response.status = 200
    /\ Len(observations) = 3
    /\ \A k \in 1..3 : observations[k].i0.t = "number" /\ observations[k].i0.n # 0
    /\ observations[1].i0.n # observations[2].i0.n
    /\ UTCDayOfMs(observations[1].i0.n * MsPerSecond)
         = UTCDayOfMs(observations[2].i0.n * MsPerSecond)
    /\ Len(response.obs) = 2

\* C5: the emitted list is strictly ascending by timestamp.
C5_StrictlyAscending ==
    \A i \in 1..(Len(response.obs) - 1) :
        response.obs[i].timestamp < response.obs[i + 1].timestamp

\* C5 witness: the records arrive latest date first and two entries are emitted
C5_Witness ==
    /\ pc = "done"
    /\ response.status = 200
    /\ Len(response.obs) = 2
    /\ Len(observations) >= 2
    /\ observations[1].i0.t = "number"
    /\ observations[1].i0.n * MsPerSecond = response.obs[2].timestamp

\* the rain field of a record, a missing one counted as 0
RainOrZero(obs) == IF obs.i11.t = "number" THEN obs.i11.n ELSE 0

C7_NearestToNoonOfDate ==
    \A i \in 1..Len(response.obs) :
        LET d == UTCDayOfMs(response.obs[i].timestamp)
            noon == d * (MsPerDay \div MsPerSecond) + NoonHour * SecondsPerHour
            dist(k) == Abs(observations[k].i0.n - noon)
            recs == RecordsOfDay(d)
        IN  \E k \in recs :
              /\ \A j \in recs : dist(k) < dist(j) \/ (dist(k) = dist(j) /\ k <= j)
              /\ response.obs[i].timestamp = observations[k].i0.n * MsPerSecond
              /\ response.obs[i].temperature = observations[k].i7
              /\ response.obs[i].humidity = observations[k].i8

\* C8: every emitted entry has a finite numeric temperature and a finite
\* numeric humidity.
C8_FiniteTemperatureAndHumidity ==
    \A i \in 1..Len(response.obs) :
        /\ response.obs[i].temperature.t = "number"
        /\ response.obs[i].humidity.t = "number"

\* C9: a record is used exactly when its timestamp is a finite number: a
\* record with a non-finite timestamp enters no date group and no rain-table
\* entry and raises no error, and a record with a finite timestamp is in the
\* group of its UTC calendar date.
C9_UsableIffFiniteTimestamp ==
    (pc = "done" /\ ConfigPresent /\ Len(observations) > 0) =>
        /\ response.error # "An unexpected error occurred"
        /\ \A g \in 1..Len(dayGroups) : \A r \in 1..Len(dayGroups[g].obs) :
              /\ dayGroups[g].obs[r].i0.t = "number"
              /\ UTCDayOfMs(dayGroups[g].obs[r].i0.n * MsPerSecond) = dayGroups[g].date
        /\ \A d \in DOMAIN dailyRain : RecordsOfDay(d) # {}
        /\ \A k \in 1..Len(observations) :
              observations[k].i0.t = "number" =>
                 \E g \in 1..Len(dayGroups) :
                    /\ dayGroups[g].date
                         = UTCDayOfMs(observations[k].i0.n * MsPerSecond)
                    /\ \E r \in 1..Len(dayGroups[g].obs) :
                          dayGroups[g].obs[r] = observations[k]

\* C10: a 404 'No weather data available' carries in details one reason for
\* each of the five offsets, joined; details is not empty.
C10_DetailsNameEveryOffset ==
    (pc = "done" /\ response.error = "No weather data available") =>
        /\ Len(errors) = NumOffsets
        /\ response.details = Join(errors, ". ")
        /\ response.details # ""

\* C11: in a success response obs is not empty, total_observations is the
\* number of entries, start_time is the smallest and end_time the largest
\* timestamp of obs, and every entry's timestamp, temperature and humidity are
\* those of one single input record of the entry's UTC date.
C11_SummaryConsistentWithObs ==
    (pc = "done" /\ response.status = 200) =>
        LET stamps == { response.obs[i].timestamp : i \in 1..Len(response.obs) }
        IN  /\ Len(response.obs) > 0
            /\ response.summary.total_observations = Len(response.obs)
            /\ response.summary.start_time \in stamps
            /\ response.summary.end_time \in stamps
            /\ \A t \in stamps : response.summary.start_time <= t
            /\ \A t \in stamps : t <= response.summary.end_time
            /\ response.summary.start_time <= response.summary.end_time
            /\ \A i \in 1..Len(response.obs) :
                  \E k \in RecordsOfDay(UTCDayOfMs(response.obs[i].timestamp)) :
                     /\ response.obs[i].timestamp = observations[k].i0.n * MsPerSecond
                     /\ response.obs[i].temperature = observations[k].i7
                     /\ response.obs[i].humidity = observations[k].i8

\* C11 witness: a success response with entries of two dates, built from three
\* records that arrive latest date first
C11_Witness ==
    /\ pc = "done"
    /\ response.status = 200
    /\ Len(observations) = 3
    /\ Len(response.obs) = 2
    /\ response.summary.start_time < response.summary.end_time
    /\ observations[1].i0.t = "number"
    /\ observations[1].i0.n * MsPerSecond = response.summary.end_time

====
